---- MODULE Spec2Model ----
(***************************************************************************)
(* The optimistic task cache (store/taskStore.ts), the sync coordinator    *)
(* (hooks/useTasks, kept in hooks/useRoles.tsx) and the reminder scheduler *)
(* (hooks/useNotifications.tsx) of zest-task-dash.                         *)
(*                                                                         *)
(* Time is counted in units of 30 s, the period of the reminder scan.      *)
(* A Date is a number of such units; a null Date is Null.                  *)
(***************************************************************************)
EXTENDS Integers, Sequences, FiniteSets, TLC

\* ------------------------------------------------------------------ bounds
MaxTime == 3        \* the clock stops advancing here
MaxReq == 3         \* remote requests issued in one run
MaxRem == 2         \* Reminder entities built by the task form in one run
MaxEdit == 1        \* submissions of the form opened on a task in one run
MaxSnooze == 2      \* setTimeout calls made by snoozeReminder in one run
MaxSort == 3        \* tasks of a cache handed to getFilteredTasks
MaxCache == 40      \* tasks of a cache handed to getCompletionRate

\* ------------------------------------------------- constants of the program
ScanWindow == 2     \* 60000 ms, the trailing window of checkReminders
OneHour == 120      \* addHours(finalDueDate, -1)
OneDay == 2880      \* addDays(finalDueDate, -1)

Null == -1
Titles == {"A", "B"}
DueDates == {Null, 1}
Permissions == {"default", "granted", "denied"}
RemIds == 1..MaxRem
FirstServerId == 100

\* The reminder configurations the form holds when it is submitted.
ReminderConfigs ==
  LET onDue == [type |-> "on-due", customTime |-> Null]
  IN {<<>>, <<onDue>>, <<onDue, onDue>>}

VARIABLES
  clock,               \* new Date(), in units of 30 s
  user,                \* useAuth().user is non-null
  tasks,               \* useTaskStore: tasks
  isLoading,           \* useTaskStore: isLoading
  isInitialized,       \* useTaskStore: isInitialized
  filters,             \* useTaskStore: filters
  remote,              \* the rows of the remote tasks table, newest first
  requests,            \* the remote requests in flight, with what their caller holds
  nextReq,             \* requests issued so far
  nextUuid,            \* crypto.randomUUID(): ids drawn so far
  nextRem,             \* uuidv4() in buildReminders: Reminder ids stored so far
  nextEdit,            \* submissions of the form opened on a task so far
  returned,            \* what the hook call that ended last returned
  mounted,             \* the component that owns useNotifications is mounted
  effectPending,       \* checkReminders changed: the effect has to run again
  checkIntervalRef,    \* the scan interval is set
  permission,          \* useNotifications: permission
  browserPermission,   \* Notification.permission
  activeReminders,     \* useNotifications: activeReminders
  snoozeIntervalsRef,  \* reminder id -> timer handle
  timers,              \* the setTimeout timers that are pending
  nextTimer,           \* timer handles handed out so far
  emitted,             \* notifications shown, per reminder id
  snoozeCalls          \* snoozeReminder calls per reminder id since it last entered activeReminders

storeVars == <<tasks, isLoading, isInitialized>>
syncVars == <<user, remote, requests, nextReq, nextUuid, nextRem, nextEdit, returned>>
schedVars == <<mounted, effectPending, checkIntervalRef, permission, browserPermission,
               activeReminders, snoozeIntervalsRef, timers, nextTimer, emitted,
               snoozeCalls>>
vars == <<clock, storeVars, filters, syncVars, schedVars>>

\* ------------------------------------------------------------ the task cache

\* { ...task, ...updates }
Spread(task, updates) ==
  [f \in DOMAIN task \cup DOMAIN updates |->
     IF f \in DOMAIN updates THEN updates[f] ELSE task[f]]

setTasks(new) == new

addTaskOptimistic(ts, task) == <<task>> \o ts

updateTaskOptimistic(ts, id, updates) ==
  [i \in 1..Len(ts) |->
     IF ts[i].id = id
       THEN IF {"id", "title", "createdAt"} \subseteq DOMAIN updates
              THEN updates
              ELSE Spread(ts[i], updates)
       ELSE ts[i]]

deleteTaskOptimistic(ts, id) == SelectSeq(ts, LAMBDA t : t.id # id)

\* useTaskStore.getState().tasks.find(t => t.id === id): <<>> is undefined
FindTask(ts, id) ==
  IF \E i \in 1..Len(ts) : ts[i].id = id
    THEN <<ts[CHOOSE i \in 1..Len(ts) :
                ts[i].id = id /\ \A j \in 1..(i - 1) : ts[j].id # id]>>
    ELSE <<>>

CountId(ts, id) == Cardinality({i \in 1..Len(ts) : ts[i].id = id})

\* ------------------------------------------------------ the views of the cache

defaultFilters ==
  [priority |-> "all", status |-> "all", category |-> "all", search |-> "",
   sortBy |-> "dueDate", sortOrder |-> "asc"]

\* setFilters(newFilters): { ...state.filters, ...newFilters }
setFilters(old, newFilters) == Spread(old, newFilters)

\* String.prototype.toLowerCase, on the strings of the model
toLowerCase(str) ==
  CASE str = "A" -> "a"
    [] str = "B" -> "b"
    [] OTHER -> str

\* String.prototype.includes, on strings of at most one character
includes(str, search) == search = "" \/ str = search

\* String.prototype.localeCompare, on the titles of the model
localeCompare(a, b) ==
  LET rank(x) == IF x = "A" THEN 1 ELSE 2
  IN IF rank(a) < rank(b) THEN -1 ELSE IF rank(a) > rank(b) THEN 1 ELSE 0

\* A JavaScript number of the comparator: an integer, Infinity, -Infinity or NaN.
Num(n) == [kind |-> "num", n |-> n]
Infinity == [kind |-> "inf", n |-> 1]
NaN == [kind |-> "nan", n |-> 0]

\* a - b
Minus(a, b) ==
  CASE a.kind = "nan" \/ b.kind = "nan" -> NaN
    [] a.kind = "inf" /\ b.kind = "inf" -> IF a.n = b.n THEN NaN ELSE a
    [] a.kind = "inf" -> a
    [] b.kind = "inf" -> [kind |-> "inf", n |-> 0 - b.n]
    [] OTHER -> Num(a.n - b.n)

\* -a
Negate(a) == IF a.kind = "nan" THEN a ELSE [a EXCEPT !.n = 0 - a.n]

\* a due time that puts the tasks without due date at 0
DueTimeOrZero(task) == IF task.dueDate # Null THEN Num(task.dueDate) ELSE Num(0)

\* a.dueDate ? new Date(a.dueDate).getTime() : Infinity
DueTime(task) == IF task.dueDate # Null THEN Num(task.dueDate) ELSE Infinity

priorityOrder(priority) ==
  CASE priority = "high" -> 0
    [] priority = "medium" -> 1
    [] priority = "low" -> 2

\* the comparator getFilteredTasks hands to sort
Comparator(a, b, f) ==
  LET comparison ==
        CASE f.sortBy = "dueDate" -> Minus(DueTime(a), DueTime(b))
          [] f.sortBy = "priority" -> Num(priorityOrder(a.priority) - priorityOrder(b.priority))
          [] f.sortBy = "createdAt" -> Num(b.createdAt - a.createdAt)
          [] f.sortBy = "title" -> Num(localeCompare(a.title, b.title))
          [] OTHER -> Num(0)
  IN IF f.sortOrder = "asc" THEN comparison ELSE Negate(comparison)

\* Array.prototype.sort reads the comparator's value: NaN counts as 0
Comes(v) == IF v.kind = "nan" THEN 0 ELSE IF v.n < 0 THEN -1 ELSE IF v.n > 0 THEN 1 ELSE 0

\* x put into a sorted list, behind the entries it does not come before
RECURSIVE InsertSorted(_, _, _)
InsertSorted(x, sorted, f) ==
  IF sorted = <<>>
    THEN <<x>>
    ELSE IF Comes(Comparator(x, Head(sorted), f)) < 0
           THEN <<x>> \o sorted
           ELSE <<Head(sorted)>> \o InsertSorted(x, Tail(sorted), f)

\* Array.prototype.sort: a stable sort
RECURSIVE SortBy(_, _, _)
SortBy(list, sorted, f) ==
  IF list = <<>> THEN sorted ELSE SortBy(Tail(list), InsertSorted(Head(list), sorted, f), f)

\* the filters of getFilteredTasks
Filtered(ts, f) ==
  LET byPriority == IF f.priority # "all"
                      THEN SelectSeq(ts, LAMBDA t : t.priority = f.priority)
                      ELSE ts
      byStatus == IF f.status # "all"
                    THEN SelectSeq(byPriority, LAMBDA t : t.status = f.status)
                    ELSE byPriority
      byCategory == IF f.category # "all"
                      THEN SelectSeq(byStatus, LAMBDA t : t.category = f.category)
                      ELSE byStatus
      search == toLowerCase(f.search)
  IN IF f.search # ""
       THEN SelectSeq(byCategory,
                      LAMBDA t : \/ includes(toLowerCase(t.title), search)
                                 \/ includes(toLowerCase(t.description), search)
                                 \/ \E k \in 1..Len(t.tags) :
                                      includes(toLowerCase(t.tags[k]), search))
       ELSE byCategory

getFilteredTasks(ts, f) == SortBy(Filtered(ts, f), <<>>, f)

\* An IEEE 754 double that is positive: m holds the 53 bits of its significand,
\* first bit first (m[1] = 1), and e is the exponent of the first bit, so its
\* value is the sum of m[i] * 2^(e - i + 1). The double 0 is Zero.
Precision == 53
Zero == [m |-> <<>>, e |-> 0]

Zeros(n) == [i \in 1..n |-> 0]

\* the bits plus one, one bit longer if they were all ones
Increment(bits) ==
  LET n == Len(bits)
      flips(i) == \A j \in i+1..n : bits[j] = 1
  IN IF \A j \in 1..n : bits[j] = 1
       THEN <<1>> \o Zeros(n)
       ELSE [i \in 1..n |-> IF flips(i) THEN 1 - bits[i] ELSE bits[i]]

\* the bits of a + b, for bits of equal length whose sum is no longer
AddBits(a, b) ==
  LET n == Len(a)
      carry(i) == \E j \in i+1..n :
                    /\ a[j] + b[j] = 2
                    /\ \A k \in i+1..j-1 : a[k] + b[k] = 1
  IN [i \in 1..n |-> (a[i] + b[i] + IF carry(i) THEN 1 ELSE 0) % 2]

\* the bits from the first 1 on
StripZeros(bits) ==
  LET first == CHOOSE i \in 1..Len(bits) : bits[i] = 1 /\ \A j \in 1..i-1 : bits[j] = 0
  IN SubSeq(bits, first, Len(bits))

\* the double nearest to the number whose bits are given (first bit 1, of exponent
\* e), ties to even; sticky tells that the number is a little more than the bits
RoundToDouble(bits, e, sticky) ==
  IF Len(bits) <= Precision
    THEN [m |-> bits \o Zeros(Precision - Len(bits)), e |-> e]
    ELSE LET kept == SubSeq(bits, 1, Precision)
             rest == SubSeq(bits, Precision + 1, Len(bits))
             more == sticky \/ \E i \in 2..Len(rest) : rest[i] = 1
             up == rest[1] = 1 /\ (more \/ kept[Precision] = 1)
             rounded == IF up THEN Increment(kept) ELSE kept
         IN IF Len(rounded) > Precision
              THEN [m |-> SubSeq(rounded, 1, Precision), e |-> e + 1]
              ELSE [m |-> rounded, e |-> e]

\* 2^k modulo t
RECURSIVE PowerOfTwoMod(_, _)
PowerOfTwoMod(k, t) ==
  IF k = 0
    THEN 1 % t
    ELSE LET h == PowerOfTwoMod(k \div 2, t)
         IN (h * h * (IF k % 2 = 1 THEN 2 ELSE 1)) % t

\* the first n bits of r / t for t <= r < 2t, and whether something is left
QuotientBits(r, t, n) ==
  LET rem(k) == ((r - t) * PowerOfTwoMod(k, t)) % t    \* what is left after k + 1 bits
  IN [bits |-> [k \in 1..n |-> IF k = 1 \/ 2 * rem(k - 2) >= t THEN 1 ELSE 0],
      inexact |-> rem(n - 1) # 0]

\* c and the exponent brought to t <= c * 2^(-e) < 2t
RECURSIVE Normalise(_, _, _)
Normalise(c, t, e) == IF c >= t THEN [r |-> c, e |-> e] ELSE Normalise(2 * c, t, e - 1)

\* c / t in doubles, for integers 0 <= c <= t, 0 < t
Divide(c, t) ==
  IF c = 0
    THEN Zero
    ELSE LET n == Normalise(c, t, 0)
             q == QuotientBits(n.r, t, Precision + 1)
         IN RoundToDouble(q.bits, n.e, q.inexact)

\* x * 100 in doubles: 100 x = 64 x + 32 x + 4 x
TimesHundred(x) ==
  IF x = Zero
    THEN Zero
    ELSE LET x64 == <<0, 0>> \o x.m \o Zeros(6)
             x32 == <<0, 0, 0>> \o x.m \o Zeros(5)
             x4 == <<0, 0, 0, 0, 0, 0>> \o x.m \o Zeros(2)
             bits == StripZeros(AddBits(AddBits(x64, x32), x4))
         IN RoundToDouble(bits, x.e + Len(bits) - Precision, FALSE)

RECURSIVE BitsToInt(_)
BitsToInt(bits) ==
  IF bits = <<>> THEN 0 ELSE 2 * BitsToInt(SubSeq(bits, 1, Len(bits) - 1)) + bits[Len(bits)]

\* Math.round(x) for 0 <= x < 2^31: the nearest integer, the upper one of two
MathRound(x) ==
  IF x = Zero \/ x.e < -1
    THEN 0
    ELSE IF x.e = -1
           THEN 1
           ELSE BitsToInt(SubSeq(x.m, 1, x.e + 1)) + x.m[x.e + 2]

getCompletionRate(ts) ==
  IF Len(ts) = 0
    THEN 0
    ELSE LET completed == Len(SelectSeq(ts, LAMBDA t : t.status = "completed"))
         IN MathRound(TimesHundred(Divide(completed, Len(ts))))

\* --------------------------------------------------------- the remote store

toISOString(d) == d

dbToTask(row) ==
  [id |-> row.id,
   title |-> row.title,
   status |-> row.status,
   dueDate |-> IF row.due_date # Null THEN row.due_date ELSE Null,
   createdAt |-> row.created_at,
   completedAt |-> IF row.completed_at # Null THEN row.completed_at ELSE Null,
   reminders |-> <<>>]

\* insert(...).select().single(): the row the table stores
InsertRow(id, data, now) ==
  [id |-> id,
   title |-> data.title,
   status |-> "pending",
   due_date |-> IF data.dueDate # Null THEN toISOString(data.dueDate) ELSE Null,
   created_at |-> now,
   completed_at |-> Null]

\* the dbUpdates object updateTask builds from updates
DbUpdates(updates) ==
  LET has(f) == f \in DOMAIN updates
      cols == (IF has("title") THEN {"title"} ELSE {})
              \cup (IF has("status") THEN {"status"} ELSE {})
              \cup (IF has("dueDate") THEN {"due_date"} ELSE {})
              \cup (IF has("completedAt") THEN {"completed_at"} ELSE {})
  IN [c \in cols |->
        CASE c = "title" -> updates.title
          [] c = "status" -> updates.status
          [] c = "due_date" ->
               IF updates.dueDate # Null THEN toISOString(updates.dueDate) ELSE Null
          [] c = "completed_at" ->
               IF updates.completedAt # Null THEN toISOString(updates.completedAt) ELSE Null]

\* update(dbUpdates).eq('id', id)
UpdateRows(rows, id, dbUpdates) ==
  [i \in 1..Len(rows) |-> IF rows[i].id = id THEN Spread(rows[i], dbUpdates) ELSE rows[i]]

\* delete().eq('id', id)
DeleteRows(rows, id) == SelectSeq(rows, LAMBDA r : r.id # id)

\* select('*').order('created_at', { ascending: false })
SelectRows(rows) == rows

\* ------------------------------------------------------------- the task form

\* the time buildReminders gives one reminder configuration
ReminderTime(config, finalDueDate) ==
  CASE config.type = "on-due" -> finalDueDate
    [] config.type = "1-day-before" -> finalDueDate - OneDay
    [] config.type = "1-hour-before" -> finalDueDate - OneHour
    [] config.type = "custom" ->
         IF config.customTime # Null THEN config.customTime ELSE finalDueDate
    [] OTHER -> finalDueDate

\* buildReminders(taskId, finalDueDate); the n-th uuid drawn is firstId + n - 1
buildReminders(taskId, finalDueDate, configs, firstId) ==
  IF finalDueDate = Null
    THEN <<>>
    ELSE [i \in 1..Len(configs) |->
            [id |-> firstId + i - 1,
             taskId |-> taskId,
             time |-> ReminderTime(configs[i], finalDueDate),
             type |-> configs[i].type,
             triggered |-> FALSE]]

\* the taskData object of handleSubmit
FormData(taskId, title, finalDueDate, configs, firstId) ==
  [title |-> title,
   dueDate |-> finalDueDate,
   reminders |-> buildReminders(taskId, finalDueDate, configs, firstId)]

\* ------------------------------------------------------ the sync coordinator

\* the value a hook call returned: op is the call, id the task it was about,
\* awaited whether it returned after the answer of the remote store
Returned(op, id, awaited, value) ==
  [op |-> op, id |-> id, awaited |-> awaited, value |-> value]

Request(kind, id, orig, body) ==
  [rid |-> nextReq + 1, kind |-> kind, id |-> id, orig |-> orig, body |-> body]

\* every write of the store's tasks gives the component a new tasks array, so
\* checkReminders changes and the effect of useNotifications runs again
TasksWritten == effectPending' = mounted

\* the request q is in flight
Sent(q) == q \in requests

TimersAndLog == <<checkIntervalRef, permission, browserPermission, activeReminders,
                  snoozeIntervalsRef, timers, nextTimer, emitted, snoozeCalls>>

\* the ids a caller can hold: of a cached task, or of a task it saw earlier
KnownIds ==
  {tasks[i].id : i \in 1..Len(tasks)} \cup {q.id : q \in {r \in requests : r.kind # "select"}}

\* fetchTasks, up to its await
fetchTasks ==
  IF ~user'
    THEN /\ tasks' = setTasks(<<>>)
         /\ isLoading' = FALSE
         /\ TasksWritten
         /\ UNCHANGED <<isInitialized, requests, nextReq>>
    ELSE /\ nextReq < MaxReq
         /\ isLoading' = TRUE
         /\ requests' = requests \cup {Request("select", 0, <<>>, <<>>)}
         /\ nextReq' = nextReq + 1
         /\ UNCHANGED <<tasks, isInitialized, effectPending>>

\* the effect of useTasks: runs when a component that uses the hook mounts and
\* when user changes
useTasksEffect ==
  IF user'
    THEN fetchTasks
    ELSE /\ tasks' = setTasks(<<>>)
         /\ isInitialized' = TRUE
         /\ TasksWritten
         /\ UNCHANGED <<isLoading, requests, nextReq>>

SignIn ==
  /\ ~effectPending
  /\ ~user
  /\ user' = TRUE
  /\ useTasksEffect
  /\ UNCHANGED <<clock, remote, nextUuid, nextRem, nextEdit, returned, mounted, TimersAndLog>>
  /\ UNCHANGED filters

SignOut ==
  /\ ~effectPending
  /\ user
  /\ user' = FALSE
  /\ useTasksEffect
  /\ UNCHANGED <<clock, remote, nextUuid, nextRem, nextEdit, returned, mounted, TimersAndLog>>
  /\ UNCHANGED filters

\* a TaskCard or the TaskForm mounts: its useTasks runs the effect
UseTasksMount ==
  /\ ~effectPending
  /\ user' = user
  /\ useTasksEffect
  /\ UNCHANGED <<clock, remote, nextUuid, nextRem, nextEdit, returned, mounted, TimersAndLog>>
  /\ UNCHANGED filters

FetchTasksSuccess(q) ==
  /\ ~effectPending
  /\ Sent(q) /\ q.kind = "select"
  /\ LET tasksData == SelectRows(remote)
     IN tasks' = setTasks([i \in 1..Len(tasksData) |-> dbToTask(tasksData[i])])
  /\ isLoading' = FALSE
  /\ isInitialized' = TRUE
  /\ requests' = requests \ {q}
  /\ TasksWritten
  /\ UNCHANGED <<clock, user, remote, nextReq, nextUuid, nextRem, nextEdit, returned, mounted,
                 TimersAndLog>>
  /\ UNCHANGED filters

\* a catch block that empties the cache
CatchFetchClearing(ts) == setTasks(<<>>)

\* the catch block of fetchTasks: it logs and shows a toast, the cache is not written
CatchFetch(ts) == ts

FetchTasksError(q) ==
  /\ ~effectPending
  /\ Sent(q) /\ q.kind = "select"
  /\ tasks' = CatchFetch(tasks)
  /\ isLoading' = FALSE
  /\ isInitialized' = TRUE
  /\ requests' = requests \ {q}
  /\ UNCHANGED <<clock, user, remote, nextReq, nextUuid, nextRem, nextEdit, returned,
                 schedVars>>
  /\ UNCHANGED filters

\* addTask(taskData), up to its await
addTask(taskData) ==
  IF ~user
    THEN /\ returned' = Returned("addTask", 0, FALSE, "null")
         /\ UNCHANGED <<storeVars, user, remote, requests, nextReq, nextUuid, nextRem, nextEdit,
                        schedVars>>
    ELSE LET optimisticTask ==
               Spread(taskData,
                      [id |-> nextUuid + 1,
                       status |-> "pending",
                       createdAt |-> clock,
                       completedAt |-> Null,
                       reminders |-> <<>>])
         IN /\ nextReq < MaxReq
            /\ tasks' = addTaskOptimistic(tasks, optimisticTask)
            /\ nextUuid' = nextUuid + 1
            /\ requests' = requests \cup {Request("insert", optimisticTask.id, <<>>, taskData)}
            /\ nextReq' = nextReq + 1
            /\ TasksWritten
            /\ UNCHANGED <<isLoading, isInitialized, user, remote, nextRem, nextEdit,
                           returned, mounted, TimersAndLog>>

\* handleSubmit of the form opened by "Add task"
SubmitNewTask(title, finalDueDate, configs) ==
  /\ ~effectPending
  /\ addTask(FormData(nextUuid + 1, title, finalDueDate, configs, nextRem + 1))
  /\ UNCHANGED clock
  /\ UNCHANGED filters

\* a reconciliation that adds the real task and leaves the optimistic entry
ReconcileByAdding(ts, tmpId, realTask) == addTaskOptimistic(ts, realTask)

\* a reconciliation that inserts the real task when the optimistic entry is gone
ReconcileOrInsert(ts, tmpId, realTask) ==
  IF CountId(ts, tmpId) = 0
    THEN addTaskOptimistic(ts, realTask)
    ELSE updateTaskOptimistic(ts, tmpId, realTask)

\* the reconciliation of addTask: the optimistic entry becomes the real task
Reconcile(ts, tmpId, realTask) == updateTaskOptimistic(ts, tmpId, realTask)

AddTaskSuccess(q) ==
  /\ ~effectPending
  /\ Sent(q) /\ q.kind = "insert"
  /\ LET data == InsertRow(FirstServerId + q.rid, q.body, clock)
         realTask == dbToTask(data)
     IN /\ remote' = <<data>> \o remote
        /\ tasks' = Reconcile(tasks, q.id, realTask)
        /\ returned' = Returned("addTask", q.id, TRUE, "task")
  /\ requests' = requests \ {q}
  /\ TasksWritten
  /\ UNCHANGED <<clock, isLoading, isInitialized, user, nextReq, nextUuid,
                 nextRem, nextEdit, mounted, TimersAndLog>>
  /\ UNCHANGED filters

\* a catch block that leaves the optimistic entry in the cache
RemoveNothing(ts, tmpId) == ts

\* the rollback of addTask's catch block
RemoveOptimistic(ts, tmpId) == deleteTaskOptimistic(ts, tmpId)

AddTaskError(q) ==
  /\ ~effectPending
  /\ Sent(q) /\ q.kind = "insert"
  /\ tasks' = RemoveOptimistic(tasks, q.id)
  /\ returned' = Returned("addTask", q.id, TRUE, "null")
  /\ requests' = requests \ {q}
  /\ TasksWritten
  /\ UNCHANGED <<clock, isLoading, isInitialized, user, remote, nextReq, nextUuid,
                 nextRem, nextEdit, mounted, TimersAndLog>>
  /\ UNCHANGED filters

\* a catch block that leaves the cache as the optimistic apply left it
RestoreNothing(ts, id, originalTask) == ts

\* a rollback that keeps the title the entry has when the answer arrives
RestoreKeepingTitle(ts, id, originalTask) ==
  IF FindTask(ts, id) = <<>>
    THEN ts
    ELSE updateTaskOptimistic(ts, id, [originalTask EXCEPT !.title = FindTask(ts, id)[1].title])

\* the rollback of updateTask's catch block
RestoreOriginal(ts, id, originalTask) == updateTaskOptimistic(ts, id, originalTask)

\* updateTask(id, updates), up to its await
updateTask(id, updates) ==
  LET originalTask == FindTask(tasks, id)
  IN IF ~user \/ originalTask = <<>>
       THEN /\ returned' = Returned("updateTask", id, FALSE, "false")
            /\ UNCHANGED <<storeVars, user, remote, requests, nextReq, nextUuid,
                           schedVars>>
       ELSE /\ nextReq < MaxReq
            /\ tasks' = updateTaskOptimistic(tasks, id, updates)
            /\ requests' = requests \cup {Request("update", id, originalTask, updates)}
            /\ nextReq' = nextReq + 1
            /\ TasksWritten
            /\ UNCHANGED <<isLoading, isInitialized, user, remote, nextUuid, returned,
                           mounted, TimersAndLog>>

\* handleSubmit of the form opened on a task: the reminders are built anew
SubmitEdit(id, title, finalDueDate, configs) ==
  /\ ~effectPending
  /\ nextEdit < MaxEdit
  /\ nextEdit' = nextEdit + 1
  /\ LET taskData == FormData(id, title, finalDueDate, configs, nextRem + 1)
     IN /\ nextRem + Len(taskData.reminders) <= MaxRem
        /\ updateTask(id, taskData)
        /\ nextRem' = IF user /\ FindTask(tasks, id) # <<>>
                         THEN nextRem + Len(taskData.reminders)
                         ELSE nextRem
  /\ UNCHANGED clock
  /\ UNCHANGED filters

\* a toggle that completes whatever the status is
AlwaysCompleted(status) == "completed"

\* const newStatus = task.status === 'pending' ? 'completed' : 'pending'
ToggledStatus(status) == IF status = "pending" THEN "completed" ELSE "pending"

\* a toggle that stamps completedAt whatever the new status is
CompletedAtAlways(newStatus, now) == now

\* const completedAt = newStatus === 'completed' ? new Date() : null
CompletedAtFor(newStatus, now) == IF newStatus = "completed" THEN now ELSE Null

toggleTaskStatus(id) ==
  LET task == FindTask(tasks, id)
  IN IF task = <<>>
       THEN /\ returned' = Returned("toggleTaskStatus", id, FALSE, "false")
            /\ UNCHANGED <<storeVars, user, remote, requests, nextReq, nextUuid,
                           schedVars>>
       ELSE LET newStatus == ToggledStatus(task[1].status)
                completedAt == CompletedAtFor(newStatus, clock)
            IN updateTask(id, [status |-> newStatus, completedAt |-> completedAt])

ToggleTaskStatus(id) ==
  /\ ~effectPending
  /\ toggleTaskStatus(id)
  /\ UNCHANGED <<clock, nextRem, nextEdit>>
  /\ UNCHANGED filters

UpdateTaskSuccess(q) ==
  /\ ~effectPending
  /\ Sent(q) /\ q.kind = "update"
  /\ remote' = UpdateRows(remote, q.id, DbUpdates(q.body))
  /\ returned' = Returned("updateTask", q.id, TRUE, "true")
  /\ requests' = requests \ {q}
  /\ UNCHANGED <<clock, storeVars, user, nextReq, nextUuid, nextRem, nextEdit, schedVars>>
  /\ UNCHANGED filters

UpdateTaskError(q) ==
  /\ ~effectPending
  /\ Sent(q) /\ q.kind = "update"
  /\ tasks' = RestoreOriginal(tasks, q.id, q.orig[1])
  /\ returned' = Returned("updateTask", q.id, TRUE, "false")
  /\ requests' = requests \ {q}
  /\ TasksWritten
  /\ UNCHANGED <<clock, isLoading, isInitialized, user, remote, nextReq, nextUuid,
                 nextRem, nextEdit, mounted, TimersAndLog>>
  /\ UNCHANGED filters

\* deleteTask(id), up to its await
DeleteTask(id) ==
  /\ ~effectPending
  /\ IF ~user
       THEN /\ returned' = Returned("deleteTask", id, FALSE, "false")
            /\ UNCHANGED <<storeVars, user, remote, requests, nextReq, nextUuid,
                           schedVars>>
       ELSE LET originalTask == FindTask(tasks, id)
            IN /\ nextReq < MaxReq
               /\ tasks' = deleteTaskOptimistic(tasks, id)
               /\ requests' = requests \cup {Request("delete", id, originalTask, <<>>)}
               /\ nextReq' = nextReq + 1
               /\ TasksWritten
               /\ UNCHANGED <<isLoading, isInitialized, user, remote, nextUuid, returned,
                              mounted, TimersAndLog>>
  /\ UNCHANGED <<clock, nextRem, nextEdit>>
  /\ UNCHANGED filters

DeleteTaskSuccess(q) ==
  /\ ~effectPending
  /\ Sent(q) /\ q.kind = "delete"
  /\ remote' = DeleteRows(remote, q.id)
  /\ returned' = Returned("deleteTask", q.id, TRUE, "true")
  /\ requests' = requests \ {q}
  /\ UNCHANGED <<clock, storeVars, user, nextReq, nextUuid, nextRem, nextEdit, schedVars>>
  /\ UNCHANGED filters

DeleteTaskError(q) ==
  /\ ~effectPending
  /\ Sent(q) /\ q.kind = "delete"
  /\ IF q.orig # <<>>
       THEN tasks' = addTaskOptimistic(tasks, q.orig[1]) /\ TasksWritten
       ELSE UNCHANGED <<tasks, effectPending>>
  /\ returned' = Returned("deleteTask", q.id, TRUE, "false")
  /\ requests' = requests \ {q}
  /\ UNCHANGED <<clock, isLoading, isInitialized, user, remote, nextReq, nextUuid,
                 nextRem, nextEdit, mounted, TimersAndLog>>
  /\ UNCHANGED filters

\* ------------------------------------------------------ the reminder scheduler

IsActive(active, reminderId) == \E i \in 1..Len(active) : active[i].id = reminderId

\* showNotification(title, body, taskId): a desktop notification, if granted
showNotification(perm) == IF perm = "granted" THEN 1 ELSE 0

\* task.reminders.map(r => r.id === reminder.id ? { ...r, triggered: true } : r)
MarkTriggered(reminders, reminderId) ==
  [i \in 1..Len(reminders) |->
     IF reminders[i].id = reminderId
       THEN [reminders[i] EXCEPT !.triggered = TRUE]
       ELSE reminders[i]]

\* an updater that appends without looking for the id
AddActiveAlways(prev, activeReminder) == Append(prev, activeReminder)

\* the updater triggerReminder hands to setActiveReminders
AddActive(prev, activeReminder) ==
  IF IsActive(prev, activeReminder.id) THEN prev ELSE Append(prev, activeReminder)

\* triggerReminder(task, reminder) on the state st = [tasks, active, emitted, fired];
\* task is the object of the array checkReminders iterates, perm the permission its
\* showNotification closes over
triggerReminder(st, task, reminder, perm) ==
  LET activeReminder ==
        [id |-> reminder.id,
         taskId |-> task.id,
         taskTitle |-> task.title,
         reminderTime |-> reminder.time,
         snoozeCount |-> 0]
      updatedReminders == MarkTriggered(task.reminders, reminder.id)
  IN [tasks |-> updateTaskOptimistic(st.tasks, task.id, [reminders |-> updatedReminders]),
      active |-> AddActive(st.active, activeReminder),
      emitted |-> [st.emitted EXCEPT
                     ![reminder.id].fire = @ + 1,
                     ![reminder.id].fireDesktop = @ + showNotification(perm)],
      fired |-> st.fired \cup {reminder.id}]

\* a test whose trailing window is closed at its far end
IsDueClosedWindow(reminder, now) ==
  /\ ~reminder.triggered
  /\ reminder.time <= now
  /\ reminder.time >= now - ScanWindow

\* a test whose trailing window is as long as the scan period
IsDueShortWindow(reminder, now) ==
  /\ ~reminder.triggered
  /\ reminder.time <= now
  /\ reminder.time > now - 1

\* the test of checkReminders on one reminder of a task that is not completed
IsDue(reminder, now) ==
  /\ ~reminder.triggered
  /\ reminder.time <= now
  /\ reminder.time > now - ScanWindow

\* the reminders of one task for which checkReminders calls triggerReminder
DueReminders(task, now) ==
  IF task.status = "completed"
    THEN <<>>
    ELSE SelectSeq(task.reminders, LAMBDA r : IsDue(r, now))

RECURSIVE ForEachReminder(_, _, _, _)
ForEachReminder(st, task, due, perm) ==
  IF due = <<>>
    THEN st
    ELSE ForEachReminder(triggerReminder(st, task, Head(due), perm), task, Tail(due), perm)

RECURSIVE ForEachTask(_, _, _, _)
ForEachTask(st, snapshot, now, perm) ==
  IF snapshot = <<>>
    THEN st
    ELSE ForEachTask(ForEachReminder(st, Head(snapshot), DueReminders(Head(snapshot), now), perm),
                     Tail(snapshot), now, perm)

\* checkReminders(): iterates the tasks array of its render
checkReminders(now, perm) ==
  ForEachTask([tasks |-> tasks, active |-> activeReminders, emitted |-> emitted, fired |-> {}],
              tasks, now, perm)

\* what a run of checkReminders leaves behind
Scanned(st) ==
  /\ tasks' = st.tasks
  /\ activeReminders' = st.active
  /\ emitted' = st.emitted
  /\ snoozeCalls' = [r \in RemIds |->
                       IF IsActive(st.active, r) /\ ~IsActive(activeReminders, r)
                         THEN 0
                         ELSE snoozeCalls[r]]

\* clearTimeout(handle)
clearTimeout(ts, handle) == {t \in ts : t.h # handle}

\* a cleanup that leaves the snooze timers running
ClearNothing(ts, ref) == ts

\* the cleanup of the effect: the snooze timers of the map are cleared
ClearAll(ts, ref) == {t \in ts : \A r \in DOMAIN ref : ref[r] # t.h}

\* the effect of useNotifications runs (at mount, and when checkReminders changed):
\* the cleanup of the run before it, then its body
RunEffect ==
  /\ mounted /\ effectPending
  /\ timers' = ClearAll(timers, snoozeIntervalsRef)
  /\ snoozeIntervalsRef' = <<>>
  /\ permission' = browserPermission
  /\ checkIntervalRef' = TRUE
  /\ LET st == checkReminders(clock, permission)
     IN /\ Scanned(st)
        /\ effectPending' = (st.fired # {} \/ permission' # permission)
  /\ UNCHANGED <<clock, isLoading, isInitialized, syncVars, mounted, browserPermission,
                 nextTimer>>
  /\ UNCHANGED filters

\* 30 s pass; the interval, if set, calls checkReminders
Tick ==
  /\ ~effectPending
  /\ clock < MaxTime
  /\ clock' = clock + 1
  /\ IF checkIntervalRef
       THEN LET st == checkReminders(clock', permission)
            IN /\ Scanned(st)
               /\ effectPending' = (st.fired # {})
       ELSE UNCHANGED <<tasks, activeReminders, emitted, snoozeCalls, effectPending>>
  /\ UNCHANGED <<isLoading, isInitialized, syncVars, mounted, checkIntervalRef, permission,
                 browserPermission, snoozeIntervalsRef, timers, nextTimer>>
  /\ UNCHANGED filters

\* the component is unmounted: the cleanup of the effect
Unmount ==
  /\ mounted /\ ~effectPending
  /\ mounted' = FALSE
  /\ checkIntervalRef' = FALSE
  /\ timers' = ClearAll(timers, snoozeIntervalsRef)
  /\ snoozeIntervalsRef' = <<>>
  /\ UNCHANGED <<clock, storeVars, syncVars, effectPending, permission, browserPermission,
                 activeReminders, nextTimer, emitted, snoozeCalls>>
  /\ UNCHANGED filters

\* the timer snoozeReminder starts for the entry r
SnoozeTimer(r, newSnoozeCount) ==
  [h |-> nextTimer + 1,
   id |-> r.id,
   taskId |-> r.taskId,
   taskTitle |-> r.taskTitle,
   count |-> newSnoozeCount,
   perm |-> permission]

\* a snoozeReminder that starts its timer without clearing the one before it
ResnoozeKeeping(ts, ref, reminderId, timer) == ts \cup {timer}

\* a snoozeReminder that clears the timers of all reminders
ResnoozeClearingAll(ts, ref, reminderId, timer) == {timer}

\* the timers left pending once snoozeReminder has replaced the timer of reminderId
Resnooze(ts, ref, reminderId, timer) ==
  (IF reminderId \in DOMAIN ref THEN clearTimeout(ts, ref[reminderId]) ELSE ts) \cup {timer}

\* a count that starts over at every snooze
FirstSnoozeCount(r) == 1

\* const newSnoozeCount = reminder.snoozeCount + 1
NextSnoozeCount(r) == r.snoozeCount + 1

\* snoozeReminder(reminderId)
SnoozeReminder(reminderId) ==
  /\ mounted /\ ~effectPending
  /\ IF IsActive(activeReminders, reminderId)
       THEN LET i == CHOOSE k \in 1..Len(activeReminders) : activeReminders[k].id = reminderId
                r == activeReminders[i]
                newSnoozeCount == NextSnoozeCount(r)
                timer == SnoozeTimer(r, newSnoozeCount)
            IN /\ nextTimer < MaxSnooze
               /\ timers' = Resnooze(timers, snoozeIntervalsRef, reminderId, timer)
               /\ snoozeIntervalsRef' =
                    [k \in DOMAIN snoozeIntervalsRef \cup {reminderId} |->
                       IF k = reminderId THEN timer.h ELSE snoozeIntervalsRef[k]]
               /\ nextTimer' = nextTimer + 1
               /\ activeReminders' =
                    [k \in 1..Len(activeReminders) |->
                       IF activeReminders[k].id = reminderId
                         THEN [activeReminders[k] EXCEPT !.snoozeCount = newSnoozeCount]
                         ELSE activeReminders[k]]
               /\ snoozeCalls' = [snoozeCalls EXCEPT ![reminderId] = @ + 1]
       ELSE UNCHANGED <<timers, snoozeIntervalsRef, nextTimer, activeReminders, snoozeCalls>>
  /\ UNCHANGED <<clock, storeVars, syncVars, mounted, effectPending, checkIntervalRef,
                 permission, browserPermission, emitted>>
  /\ UNCHANGED filters

\* dismissReminder(reminderId)
DismissReminder(reminderId) ==
  /\ mounted /\ ~effectPending
  /\ IF reminderId \in DOMAIN snoozeIntervalsRef
       THEN /\ timers' = clearTimeout(timers, snoozeIntervalsRef[reminderId])
            /\ snoozeIntervalsRef' =
                 [k \in DOMAIN snoozeIntervalsRef \ {reminderId} |-> snoozeIntervalsRef[k]]
       ELSE UNCHANGED <<timers, snoozeIntervalsRef>>
  /\ activeReminders' = SelectSeq(activeReminders, LAMBDA r : r.id # reminderId)
  /\ snoozeCalls' = [snoozeCalls EXCEPT ![reminderId] = 0]
  /\ UNCHANGED <<clock, storeVars, syncVars, mounted, effectPending, checkIntervalRef,
                 permission, browserPermission, nextTimer, emitted>>
  /\ UNCHANGED filters

\* the calls the alert makes: snoozeReminder(id) and dismissReminder(id)
AlertCalls == [op : {"snooze", "dismiss"}, id : RemIds]

\* what the calls of one batch work on: the state of activeReminders that the
\* queued updaters transform, the map of timer handles, the pending timers
AlertState ==
  [active |-> activeReminders, ref |-> snoozeIntervalsRef, timers |-> timers,
   nextTimer |-> nextTimer, calls |-> snoozeCalls]

\* what a call does when it is made: dismissReminder clears the timer the map has
\* for the id; both calls hand their updater to setActiveReminders
CallNow(st, call) ==
  IF call.op = "dismiss" /\ call.id \in DOMAIN st.ref
    THEN [st EXCEPT !.timers = clearTimeout(@, st.ref[call.id]),
                    !.ref = [k \in DOMAIN st.ref \ {call.id} |-> st.ref[k]]]
    ELSE st

\* what the updater of a call does when React runs it for the next render
RunUpdater(st, call) ==
  IF call.op = "dismiss"
    THEN [st EXCEPT !.active = SelectSeq(@, LAMBDA r : r.id # call.id),
                    !.calls[call.id] = 0]
    ELSE IF IsActive(st.active, call.id)
           THEN LET i == CHOOSE k \in 1..Len(st.active) : st.active[k].id = call.id
                    r == st.active[i]
                    newSnoozeCount == NextSnoozeCount(r)
                    timer == [SnoozeTimer(r, newSnoozeCount) EXCEPT !.h = st.nextTimer + 1]
                IN [st EXCEPT
                      !.timers = Resnooze(@, st.ref, call.id, timer),
                      !.ref = [k \in DOMAIN st.ref \cup {call.id} |->
                                 IF k = call.id THEN timer.h ELSE st.ref[k]],
                      !.nextTimer = @ + 1,
                      !.active = [k \in 1..Len(st.active) |->
                                    IF st.active[k].id = call.id
                                      THEN [st.active[k] EXCEPT !.snoozeCount = newSnoozeCount]
                                      ELSE st.active[k]],
                      !.calls[call.id] = @ + 1]
           ELSE st

\* two calls of the alert are made before React renders: each call runs up to its
\* setActiveReminders, then the render runs the queued updaters in order
AlertBatch(first, second) ==
  /\ mounted /\ ~effectPending
  /\ LET made == CallNow(CallNow(AlertState, first), second)
         rendered == RunUpdater(RunUpdater(made, first), second)
     IN /\ rendered.nextTimer <= MaxSnooze
        /\ activeReminders' = rendered.active
        /\ snoozeIntervalsRef' = rendered.ref
        /\ timers' = rendered.timers
        /\ nextTimer' = rendered.nextTimer
        /\ snoozeCalls' = rendered.calls
  /\ UNCHANGED <<clock, storeVars, syncVars, mounted, effectPending, checkIntervalRef,
                 permission, browserPermission, emitted>>
  /\ UNCHANGED filters

\* a snooze timer elapses: its callback shows the snoozed reminder again. The delay
\* of 5 * 60 * 1000 ms is ten scan periods, so the timer may elapse at any step
\* after it was set, with any number of scans and other events in between
SnoozeTimeout(t) ==
  /\ ~effectPending
  /\ t \in timers
  /\ timers' = timers \ {t}
  /\ emitted' = [emitted EXCEPT ![t.id].snooze = @ + 1,
                                ![t.id].snoozeDesktop = @ + showNotification(t.perm)]
  /\ UNCHANGED <<clock, storeVars, syncVars, mounted, effectPending, checkIntervalRef,
                 permission, browserPermission, activeReminders, snoozeIntervalsRef,
                 nextTimer, snoozeCalls>>
  /\ UNCHANGED filters

\* requestPermission(): the browser answers with the user's choice, or with the
\* choice already made
RequestPermission(result) ==
  /\ mounted /\ ~effectPending
  /\ browserPermission # "default" => result = browserPermission
  /\ browserPermission' = result
  /\ permission' = result
  /\ effectPending' = (permission' # permission)
  /\ returned' = Returned("requestPermission", 0, TRUE,
                          IF result = "granted" THEN "true" ELSE "false")
  /\ UNCHANGED <<clock, storeVars, user, remote, requests, nextReq, nextUuid, nextRem,
                 nextEdit, mounted, checkIntervalRef, activeReminders,
                 snoozeIntervalsRef, timers, nextTimer, emitted, snoozeCalls>>
  /\ UNCHANGED filters

\* ------------------------------------------------------- the filter bar

\* what the user sets in the filter bar
FilterChoices ==
  {[sortBy |-> k] : k \in {"dueDate", "priority", "createdAt", "title"}}
  \cup {[sortOrder |-> o] : o \in {"asc", "desc"}}
  \cup {[priority |-> pr] : pr \in {"all", "high"}}
  \cup {[search |-> str] : str \in {"", "a"}}

SetFilters(newFilters) ==
  /\ ~effectPending
  /\ filters' = setFilters(filters, newFilters)
  /\ returned' = Returned("setFilters", 0, FALSE, "undefined")
  /\ UNCHANGED <<clock, storeVars, user, remote, requests, nextReq, nextUuid, nextRem,
                 nextEdit, schedVars>>

GetFilteredTasks ==
  /\ ~effectPending
  /\ returned' = Returned("getFilteredTasks", 0, FALSE, getFilteredTasks(tasks, filters))
  /\ UNCHANGED <<clock, storeVars, filters, user, remote, requests, nextReq, nextUuid,
                 nextRem, nextEdit, schedVars>>

GetCompletionRate ==
  /\ ~effectPending
  /\ returned' = Returned("getCompletionRate", 0, FALSE, getCompletionRate(tasks))
  /\ UNCHANGED <<clock, storeVars, filters, user, remote, requests, nextReq, nextUuid,
                 nextRem, nextEdit, schedVars>>

\* ---------------------------------------------------------- the specification

InitialRow ==
  [id |-> FirstServerId, title |-> "A", status |-> "pending", due_date |-> Null,
   created_at |-> 0, completed_at |-> Null]

Init ==
  /\ clock = 0
  /\ user = FALSE
  /\ tasks = <<>>
  /\ isLoading = TRUE
  /\ isInitialized = FALSE
  /\ filters = defaultFilters
  /\ remote = <<InitialRow>>
  /\ requests = {}
  /\ nextReq = 0
  /\ nextUuid = 0
  /\ nextRem = 0
  /\ nextEdit = 0
  /\ returned = Returned("none", 0, FALSE, "none")
  /\ mounted = TRUE
  /\ effectPending = TRUE
  /\ checkIntervalRef = FALSE
  /\ permission = "default"
  /\ browserPermission = "default"
  /\ activeReminders = <<>>
  /\ snoozeIntervalsRef = <<>>
  /\ timers = {}
  /\ nextTimer = 0
  /\ emitted = [r \in RemIds |-> [fire |-> 0, fireDesktop |-> 0, snooze |-> 0, snoozeDesktop |-> 0]]
  /\ snoozeCalls = [r \in RemIds |-> 0]

\* the hook calls and remote answers of the sync coordinator; the form is submitted
\* with reminder configurations drawn from configSet
SyncStep(configSet) ==
  \/ SignIn
  \/ SignOut
  \/ UseTasksMount
  \/ \E q \in requests : FetchTasksSuccess(q)
  \/ \E q \in requests : FetchTasksError(q)
  \/ \E title \in Titles, due \in DueDates, configs \in configSet :
       SubmitNewTask(title, due, configs)
  \/ \E q \in requests : AddTaskSuccess(q)
  \/ \E q \in requests : AddTaskError(q)
  \/ \E id \in KnownIds, title \in Titles, due \in DueDates, configs \in configSet :
       SubmitEdit(id, title, due, configs)
  \/ \E id \in KnownIds : ToggleTaskStatus(id)
  \/ \E q \in requests : UpdateTaskSuccess(q)
  \/ \E q \in requests : UpdateTaskError(q)
  \/ \E id \in KnownIds : DeleteTask(id)
  \/ \E q \in requests : DeleteTaskSuccess(q)
  \/ \E q \in requests : DeleteTaskError(q)

\* the user's steps on the reminder alerts, and the snooze timers
AlertStep ==
  \/ \E r \in RemIds : SnoozeReminder(r)
  \/ \E r \in RemIds : DismissReminder(r)
  \/ \E t \in timers : SnoozeTimeout(t)

Next ==
  \/ SyncStep(ReminderConfigs)
  \/ RunEffect
  \/ Tick
  \/ AlertStep
  \/ Unmount
  \/ \E p \in Permissions : RequestPermission(p)
  \/ \E newFilters \in FilterChoices : SetFilters(newFilters)
  \/ GetFilteredTasks
  \/ GetCompletionRate
  \/ \E first, second \in AlertCalls : AlertBatch(first, second)

\* Every step of the program. TLC explores the state graphs of the two
\* specifications below completely; the properties are checked on them.
Spec == Init /\ [][Next]_vars

\* The sync coordinator with a user who sets no reminders and never answers the
\* permission prompt: the scans find nothing due.
NextSync == SyncStep({<<>>}) \/ RunEffect \/ Tick

SpecSync == Init /\ [][NextSync]_vars

\* The scheduler on a loaded cache: the user is signed in, the first fetchTasks has
\* answered and the effect has run; tasks are edited and toggled, not added or deleted.
InitLoaded ==
  /\ clock = 0
  /\ user = TRUE
  /\ tasks = <<dbToTask(InitialRow)>>
  /\ isLoading = FALSE
  /\ isInitialized = TRUE
  /\ filters = defaultFilters
  /\ remote = <<InitialRow>>
  /\ requests = {}
  /\ nextReq = 0
  /\ nextUuid = 0
  /\ nextRem = 0
  /\ nextEdit = 0
  /\ returned = Returned("none", 0, FALSE, "none")
  /\ mounted = TRUE
  /\ effectPending = FALSE
  /\ checkIntervalRef = TRUE
  /\ permission = "default"
  /\ browserPermission = "default"
  /\ activeReminders = <<>>
  /\ snoozeIntervalsRef = <<>>
  /\ timers = {}
  /\ nextTimer = 0
  /\ emitted = [r \in RemIds |-> [fire |-> 0, fireDesktop |-> 0, snooze |-> 0, snoozeDesktop |-> 0]]
  /\ snoozeCalls = [r \in RemIds |-> 0]

NextSched ==
  \/ \E id \in KnownIds, title \in Titles, due \in DueDates, configs \in ReminderConfigs :
       SubmitEdit(id, title, due, configs)
  \/ \E id \in KnownIds : ToggleTaskStatus(id)
  \/ \E q \in requests : UpdateTaskSuccess(q)
  \/ \E q \in requests : UpdateTaskError(q)
  \/ RunEffect
  \/ Tick
  \/ AlertStep

SpecSched == InitLoaded /\ [][NextSched]_vars

\* The scheduler on a loaded cache, with the component that owns it unmounted at
\* some point.
NextTeardown == NextSched \/ Unmount

SpecTeardown == InitLoaded /\ [][NextTeardown]_vars

\* The sync coordinator on a loaded cache with a remote store that fails every
\* request: tasks are added, edited (without reminders), toggled and deleted.
NextFailing ==
  \/ \E title \in Titles, due \in DueDates : SubmitNewTask(title, due, <<>>)
  \/ \E q \in requests : AddTaskError(q)
  \/ \E id \in KnownIds, title \in Titles, due \in DueDates : SubmitEdit(id, title, due, <<>>)
  \/ \E id \in KnownIds : ToggleTaskStatus(id)
  \/ \E q \in requests : UpdateTaskError(q)
  \/ \E id \in KnownIds : DeleteTask(id)
  \/ \E q \in requests : DeleteTaskError(q)
  \/ RunEffect

SpecFailing == InitLoaded /\ [][NextFailing]_vars

\* The task form creates tasks with reminders on a loaded cache while the scheduler
\* runs.
NextCreate ==
  \/ \E title \in Titles, due \in DueDates, configs \in ReminderConfigs :
       SubmitNewTask(title, due, configs)
  \/ \E q \in requests : AddTaskSuccess(q)
  \/ \E q \in requests : AddTaskError(q)
  \/ RunEffect
  \/ Tick

SpecCreate == InitLoaded /\ [][NextCreate]_vars

\* what the form opened on the loaded task sends when a due date of 1 and the
\* reminder configurations configs are set
RemindedData(configs) == FormData(FirstServerId, "A", 1, configs, 1)

\* the cache once such an edit of the loaded task has been applied
RemindedCache(configs) ==
  updateTaskOptimistic(<<dbToTask(InitialRow)>>, FirstServerId, RemindedData(configs))

\* the state once the edit has succeeded and the effect has run, with the given
\* clock, cache, active reminders and notifications shown
InitScheduler(now, cache, active, log) ==
  /\ clock = now
  /\ user = TRUE
  /\ tasks = cache
  /\ isLoading = FALSE
  /\ isInitialized = TRUE
  /\ filters = defaultFilters
  /\ remote = UpdateRows(<<InitialRow>>, FirstServerId, DbUpdates(RemindedData(<<>>)))
  /\ requests = {}
  /\ nextReq = 1
  /\ nextUuid = 0
  /\ nextRem = Len(cache[1].reminders)
  /\ nextEdit = 1
  /\ returned = Returned("updateTask", FirstServerId, TRUE, "true")
  /\ mounted = TRUE
  /\ effectPending = FALSE
  /\ checkIntervalRef = TRUE
  /\ permission = "default"
  /\ browserPermission = "default"
  /\ activeReminders = active
  /\ snoozeIntervalsRef = <<>>
  /\ timers = {}
  /\ nextTimer = 0
  /\ emitted = log
  /\ snoozeCalls = [r \in RemIds |-> 0]

\* The task has its reminders, none of them triggered; no notification was shown.
InitReminded ==
  \E configs \in ReminderConfigs \ {<<>>} :
    InitScheduler(0, RemindedCache(configs), <<>>,
                  [r \in RemIds |-> [fire |-> 0, fireDesktop |-> 0,
                                     snooze |-> 0, snoozeDesktop |-> 0]])

NextBatch ==
  \/ RunEffect
  \/ Tick
  \/ AlertStep
  \/ \E first, second \in AlertCalls : AlertBatch(first, second)

\* The scheduler on a task with reminders, with a user who snoozes and dismisses
\* them, also twice before the alert is rendered again.
SpecBatch == InitReminded /\ [][NextBatch]_vars

\* The task has one reminder, at 1; the scan at 1 has fired it and the effect has
\* run again.
InitFired ==
  LET st == ForEachTask([tasks |-> RemindedCache(<<[type |-> "on-due", customTime |-> Null]>>),
                         active |-> <<>>,
                         emitted |-> [r \in RemIds |-> [fire |-> 0, fireDesktop |-> 0,
                                                        snooze |-> 0, snoozeDesktop |-> 0]],
                         fired |-> {}],
                        RemindedCache(<<[type |-> "on-due", customTime |-> Null]>>),
                        1, "default")
  IN InitScheduler(1, st.tasks, st.active, st.emitted)

NextPermission ==
  \/ RunEffect
  \/ Tick
  \/ AlertStep
  \/ \E p \in Permissions : RequestPermission(p)

\* The scheduler after its one reminder has fired, with a user who snoozes and
\* dismisses it and answers the permission prompt at some point. No task is
\* written any more, so the effect runs again only when the permission changed.
SpecPermission == InitFired /\ [][NextPermission]_vars

\* ------------------------------------------------- the views, on given caches

\* a row with the columns the views read besides those of InitialRow
ViewRow(id, title, priority, status, dueDate, createdAt) ==
  [id |-> id, title |-> title, description |-> "", priority |-> priority,
   status |-> status, due_date |-> dueDate, category |-> "Personal", tags |-> <<>>,
   created_at |-> createdAt,
   completed_at |-> IF status = "completed" THEN createdAt ELSE Null]

\* dbToTask, with these columns
ViewTask(row) ==
  Spread(dbToTask(row),
         [description |-> row.description, priority |-> row.priority,
          category |-> row.category, tags |-> row.tags])

\* the loaded state of InitLoaded, with the given rows in the remote store
InitWith(rows) ==
  /\ clock = 0
  /\ user = TRUE
  /\ tasks = [i \in 1..Len(rows) |-> ViewTask(rows[i])]
  /\ isLoading = FALSE
  /\ isInitialized = TRUE
  /\ filters = defaultFilters
  /\ remote = rows
  /\ requests = {}
  /\ nextReq = 0
  /\ nextUuid = 0
  /\ nextRem = 0
  /\ nextEdit = 0
  /\ returned = Returned("none", 0, FALSE, "none")
  /\ mounted = TRUE
  /\ effectPending = FALSE
  /\ checkIntervalRef = TRUE
  /\ permission = "default"
  /\ browserPermission = "default"
  /\ activeReminders = <<>>
  /\ snoozeIntervalsRef = <<>>
  /\ timers = {}
  /\ nextTimer = 0
  /\ emitted = [r \in RemIds |-> [fire |-> 0, fireDesktop |-> 0, snooze |-> 0, snoozeDesktop |-> 0]]
  /\ snoozeCalls = [r \in RemIds |-> 0]

\* the tables of at most MaxSort rows, newest first, with every title, priority
\* and due date
SortTables ==
  UNION {[1..n -> Titles \X {"high", "low"} \X {Null, 1, 2}] : n \in 0..MaxSort}

InitSort ==
  \E c \in SortTables :
    InitWith([i \in 1..Len(c) |->
                ViewRow(FirstServerId + i, c[i][1], c[i][2], "pending", c[i][3], Len(c) - i)])

NextSort ==
  \/ \E newFilters \in FilterChoices : SetFilters(newFilters)
  \/ GetFilteredTasks

\* The filter bar and the task list on a given cache.
SpecSort == InitSort /\ [][NextSort]_vars

\* the tables of at most MaxCache rows of which the first c are completed
InitRate ==
  \E t \in 0..MaxCache : \E c \in 0..t :
    InitWith([i \in 1..t |->
                ViewRow(FirstServerId + i, "A", "medium",
                        IF i <= c THEN "completed" ELSE "pending", Null, t - i)])

NextRate == GetCompletionRate

\* The completion rate of a given cache.
SpecRate == InitRate /\ [][NextRate]_vars

\* ------------------------------------------------------------- the properties

\* the requests a step issues, and the ones it answers
Issued == requests' \ requests
Answered == requests \ requests'

\* C1: when the remote update of updateTask(id, updates) fails, every cache entry
\* with this id is again the snapshot updateTask took before its optimistic apply
\* (so no value of updates stays visible), and updateTask returns false.
C1_UpdateRollback ==
  [][/\ \A q \in Issued : q.kind = "update" => q.orig = FindTask(tasks, q.id)
     /\ \A q \in Answered :
          (q.kind = "update" /\ returned'.value = "false") =>
            /\ returned' = Returned("updateTask", q.id, TRUE, "false")
            /\ CountId(tasks', q.id) = CountId(tasks, q.id)
            /\ \A i \in 1..Len(tasks') : tasks'[i].id = q.id => tasks'[i] = q.orig[1]]_vars

\* a failed update has just been rolled back on a task that is in the cache
C1_Witness ==
  /\ returned.op = "updateTask" /\ returned.awaited /\ returned.value = "false"
  /\ FindTask(tasks, returned.id) # <<>>

\* the step is the success answer to the insert request q
InsertSucceeds(q) == q \in Answered /\ q.kind = "insert" /\ returned'.value = "task"

C3_UniqueIds ==
  \A i, j \in 1..Len(tasks) : tasks[i].id = tasks[j].id => i = j

\* C4: the fire notification of a reminder is shown at most once.
C4_FiresAtMostOnce ==
  \A r \in RemIds : emitted[r].fire <= 1

\* the step runs checkReminders, and the time it runs it at
ScanStep == ~UNCHANGED vars /\ (effectPending \/ (clock' # clock /\ checkIntervalRef))
ScanTime == clock'

\* C5: a scan fires a reminder of a cached task if and only if the task is not
\* completed, the reminder's triggered flag is false and
\* now - 60 s < reminder.time <= now; no other step fires a reminder.
C5_ScanFireCondition ==
  [][/\ ScanStep =>
          \A i \in 1..Len(tasks) : \A k \in 1..Len(tasks[i].reminders) :
            LET reminder == tasks[i].reminders[k]
                fires == /\ tasks[i].status # "completed"
                         /\ ~reminder.triggered
                         /\ ScanTime - ScanWindow < reminder.time
                         /\ reminder.time <= ScanTime
            IN emitted'[reminder.id].fire = emitted[reminder.id].fire + (IF fires THEN 1 ELSE 0)
     /\ ~ScanStep => \A r \in RemIds : emitted'[r].fire = emitted[r].fire]_vars

\* a scan has fired a reminder that was due: it is marked, and was notified once
C5_Witness ==
  \E i \in 1..Len(tasks) : \E k \in 1..Len(tasks[i].reminders) :
    /\ tasks[i].reminders[k].triggered
    /\ emitted[tasks[i].reminders[k].id].fire = 1
    /\ clock >= tasks[i].reminders[k].time

\* C6: activeReminders holds at most one entry per reminder id, also when a
\* reminder is fired again while its entry is there.
C6_ActiveDedup ==
  \A i, j \in 1..Len(activeReminders) :
    activeReminders[i].id = activeReminders[j].id => i = j

\* a reminder was fired twice and has one entry
C6_Witness ==
  \E r \in RemIds :
    /\ emitted[r].fire >= 2
    /\ Cardinality({i \in 1..Len(activeReminders) : activeReminders[i].id = r}) = 1

\* the snooze timers that are pending for the reminder r
TimersOf(r) == {t \in timers : t.id = r}

\* C7: at every state at most one snooze timer is pending per reminder id.
C7_SingleSnoozeTimer ==
  \A r \in RemIds : Cardinality(TimersOf(r)) <= 1

\* a reminder was snoozed twice and the timer of the second snooze is the one pending
C7_Witness ==
  \E r \in RemIds :
    /\ snoozeCalls[r] = 2
    /\ \E t \in timers : TimersOf(r) = {t} /\ t.count = 2

\* C8: an entry of activeReminders is created with snoozeCount 0, and at every
\* state its snoozeCount is the number of snoozeReminder calls made for its id
\* since the entry was created.
C8_SnoozeCount ==
  \A i \in 1..Len(activeReminders) :
    activeReminders[i].snoozeCount = snoozeCalls[activeReminders[i].id]

\* an active reminder that was snoozed twice
C8_Witness ==
  \E i \in 1..Len(activeReminders) :
    /\ activeReminders[i].snoozeCount = 2
    /\ snoozeCalls[activeReminders[i].id] = 2

\* C9: the timer snoozeReminder sets for a reminder stays pending until it elapses
\* and the snooze notification is emitted, whatever other events happen, unless
\* the reminder is snoozed again or dismissed or the scheduler is torn down.
C9_SnoozeTimerSurvives ==
  [][\A t \in timers :
       t \notin timers' =>
         \/ emitted'[t.id].snooze = emitted[t.id].snooze + 1
         \/ snoozeCalls'[t.id] = snoozeCalls[t.id] + 1
         \/ IsActive(activeReminders, t.id) /\ ~IsActive(activeReminders', t.id)
         \/ ~mounted']_vars

\* the reminder r was fired and its entry was then removed from activeReminders,
\* which only dismissReminder does while the component is mounted
Dismissed(r) == mounted /\ emitted[r].fire > 0 /\ ~IsActive(activeReminders, r)

\* C10: once a reminder is dismissed it is not in activeReminders, has no pending
\* timer, is notified no more and does not enter activeReminders again.
C10_DismissTerminal ==
  [][\A r \in RemIds :
       Dismissed(r) =>
         /\ TimersOf(r) = {}
         /\ emitted'[r] = emitted[r]
         /\ ~IsActive(activeReminders', r)
         /\ TimersOf(r)' = {}]_vars

\* C11: the step that unmounts the component cancels the scan interval and every
\* pending snooze timer, and no step after it emits a notification or leaves a
\* timer or the interval running.
C11_TeardownCancels ==
  [][/\ (mounted /\ ~mounted') => (timers' = {} /\ ~checkIntervalRef')
     /\ ~mounted => (emitted' = emitted /\ timers' = {} /\ ~checkIntervalRef')]_vars

\* the component is unmounted while a reminder is snoozed whose snooze
\* notification was not shown
C11_Witness ==
  /\ ~mounted
  /\ timers = {}
  /\ \E i \in 1..Len(activeReminders) :
       /\ activeReminders[i].snoozeCount > 0
       /\ emitted[activeReminders[i].id].snooze = 0

\* the reminders of a cache, as a set
RemindersOf(ts) ==
  UNION {{ts[i].reminders[k] : k \in 1..Len(ts[i].reminders)} : i \in 1..Len(ts)}

\* C12: a reminder whose triggered flag is true in the cache has it true in the
\* next state, if a reminder with its id is still in the cache.
C12_TriggeredMonotonic ==
  [][\A r \in RemindersOf(tasks), n \in RemindersOf(tasks') :
       (r.triggered /\ n.id = r.id) => n.triggered]_vars

\* C13: every task of the cache has completedAt non-null if and only if its
\* status is completed.
C13_CompletionInvariant ==
  \A i \in 1..Len(tasks) : (tasks[i].completedAt # Null) <=> (tasks[i].status = "completed")

\* a completed task of the cache, with its completedAt, agrees with its remote row
C13_Witness ==
  /\ requests = {}
  /\ \E i \in 1..Len(tasks) : \E j \in 1..Len(remote) :
       /\ tasks[i] = dbToTask(remote[j])
       /\ tasks[i].status = "completed"
       /\ tasks[i].completedAt # Null

\* the step is the call toggleTaskStatus(q.id) that issues the request q
Toggles(q) == q \in Issued /\ q.kind = "update" /\ "status" \in DOMAIN q.body

\* C14: toggleTaskStatus on a pending task leaves it, in one step of the cache,
\* completed with completedAt non-null and nothing else changed; on a completed
\* task it leaves it pending with completedAt null.
C14_CompletionToggle ==
  [][\A q \in requests' : Toggles(q) =>
       LET before == FindTask(tasks, q.id)[1]
           after == FindTask(tasks', q.id)[1]
       IN /\ CountId(tasks', q.id) = CountId(tasks, q.id)
          /\ before.status = "pending" =>
               after = [before EXCEPT !.status = "completed", !.completedAt = clock]
          /\ before.status = "pending" => after.completedAt # Null
          /\ before.status = "completed" =>
               after = [before EXCEPT !.status = "pending", !.completedAt = Null]]_vars

\* a task was toggled twice and is pending again, with completedAt null
C14_Witness ==
  \E q1, q2 \in requests :
    /\ q1.kind = "update" /\ q2.kind = "update" /\ q1.id = q2.id /\ q1.rid < q2.rid
    /\ "status" \in DOMAIN q1.body /\ q1.body.status = "completed"
    /\ "status" \in DOMAIN q2.body /\ q2.body.status = "pending"
    /\ FindTask(tasks, q1.id) # <<>>
    /\ FindTask(tasks, q1.id)[1].status = "pending"
    /\ FindTask(tasks, q1.id)[1].completedAt = Null

\* C15: when the remote create of addTask fails, the cache then has no entry with
\* the temporary id, its other entries are unchanged and in place, and addTask
\* returns null.
C15_InsertRollback ==
  [][\A q \in Answered :
       (q.kind = "insert" /\ returned'.value = "null") =>
         /\ returned' = Returned("addTask", q.id, TRUE, "null")
         /\ CountId(tasks', q.id) = 0
         /\ tasks' = SelectSeq(tasks, LAMBDA t : t.id # q.id)]_vars

\* a failed addTask was rolled back in a cache that holds other tasks
C15_Witness ==
  /\ returned = Returned("addTask", returned.id, TRUE, "null")
  /\ CountId(tasks, returned.id) = 0
  /\ tasks # <<>>

\* C16: when deleteTask(id) removed a cached task and the remote delete fails, the
\* cache then holds exactly one entry with the id, equal to the entry captured
\* before the removal, and deleteTask returns false.
C16_DeleteRollback ==
  [][\A q \in Answered :
       (q.kind = "delete" /\ returned'.value = "false" /\ q.orig # <<>>) =>
         /\ returned' = Returned("deleteTask", q.id, TRUE, "false")
         /\ CountId(tasks', q.id) = 1
         /\ FindTask(tasks', q.id) = q.orig]_vars

\* C17: with a remote store that fails every request, whenever no request is in
\* flight the cache is what it was before the first mutation: the loaded task,
\* once, unchanged, and nothing else.
C17_RolledBackWhenQuiet ==
  requests = {} => tasks = <<dbToTask(InitialRow)>>

\* the completed tasks of the cache
CompletedCount == Len(SelectSeq(tasks, LAMBDA t : t.status = "completed"))

\* C18: for a cache of t tasks of which c are completed, getCompletionRate()
\* returns 0 when t = 0 and otherwise 100 * c / t rounded to the nearest integer,
\* a half upwards.
C18_CompletionRate ==
  returned.op = "getCompletionRate" =>
    returned.value = IF Len(tasks) = 0
                       THEN 0
                       ELSE (200 * CompletedCount + Len(tasks)) \div (2 * Len(tasks))

\* C19: in the list getFilteredTasks returns with sortBy = dueDate and sortOrder =
\* asc, every task without due date comes after every task with one, and the tasks
\* with a due date are in non-decreasing order of it, whatever their titles and
\* priorities.
C19_DueDateSortAsc ==
  (returned.op = "getFilteredTasks" /\ filters.sortBy = "dueDate" /\ filters.sortOrder = "asc") =>
    \A i, j \in 1..Len(returned.value) :
      i < j =>
        /\ returned.value[i].dueDate = Null => returned.value[j].dueDate = Null
        /\ (returned.value[i].dueDate # Null /\ returned.value[j].dueDate # Null) =>
             returned.value[i].dueDate <= returned.value[j].dueDate

\* the cache began with a task without due date, of high priority and title A; the
\* list returned for dueDate ascending has it last, behind two tasks of low priority
\* and title B in the order of their due dates, which the cache had the other way
C19_Witness ==
  /\ returned.op = "getFilteredTasks" /\ filters.sortBy = "dueDate" /\ filters.sortOrder = "asc"
  /\ Len(tasks) = 3 /\ Len(returned.value) = 3
  /\ tasks[1].dueDate = Null /\ tasks[1].priority = "high" /\ tasks[1].title = "A"
  /\ tasks[2].dueDate = 2 /\ tasks[2].priority = "low" /\ tasks[2].title = "B"
  /\ tasks[3].dueDate = 1 /\ tasks[3].priority = "low" /\ tasks[3].title = "B"
  /\ returned.value = <<tasks[3], tasks[2], tasks[1]>>

\* C20: with two updateTask calls on one id in flight, the failure of the earlier
\* one leaves the entry equal to the earlier call's snapshot, so the later call's
\* change is gone from the cache; a success answer never changes the cache, so the
\* change stays lost when the later request succeeds.
C20_StaleRollback ==
  [][/\ \A q1 \in Answered : \A q2 \in requests' :
          (/\ q1.kind = "update" /\ returned'.value = "false"
           /\ q2.kind = "update" /\ q2.id = q1.id /\ q2.rid > q1.rid
           /\ FindTask(tasks, q1.id) # <<>>) =>
            FindTask(tasks', q1.id) = q1.orig
     /\ \A q \in Answered :
          (q.kind = "update" /\ returned'.value = "true") => tasks' = tasks]_vars

\* the edit of the title succeeded in the remote store after an earlier toggle of
\* the task had failed: the remote row has the new title, the cache the old one
C20_Witness ==
  /\ requests = {}
  /\ returned.op = "updateTask" /\ returned.value = "true"
  /\ \E i \in 1..Len(tasks) : \E j \in 1..Len(remote) :
       /\ tasks[i].id = remote[j].id
       /\ tasks[i].id = returned.id
       /\ remote[j].title = "B"
       /\ tasks[i].title = "A"

\* C21: when the answer to the request of an addTask or updateTask call arrives
\* and no entry of the cache has the id the call targets, the reconciliation or the
\* rollback leaves the whole cache as it is, and the call returns as it does
\* otherwise.
C21_VanishedEntryNoOp ==
  [][\A q \in Answered :
       (q.kind \in {"insert", "update"} /\ CountId(tasks, q.id) = 0) =>
         /\ tasks' = tasks
         /\ returned'.awaited /\ returned'.id = q.id
         /\ returned'.op = (IF q.kind = "insert" THEN "addTask" ELSE "updateTask")]_vars

\* the create of a task succeeded after its optimistic entry had been deleted: the
\* remote store has a row that the cache, which holds other tasks, does not have
C21_Witness ==
  /\ returned.op = "addTask" /\ returned.awaited /\ returned.value = "task"
  /\ user /\ requests = {}
  /\ tasks # <<>>
  /\ CountId(tasks, returned.id) = 0
  /\ \E j \in 1..Len(remote) :
       remote[j].id > FirstServerId /\ CountId(tasks, remote[j].id) = 0

\* the pending snooze timers without the permission their callbacks close over
PendingSnoozes(ts) == {[id |-> t.id, count |-> t.count] : t \in ts}

\* the toasts shown so far, per reminder
Toasts(log) == [r \in RemIds |-> [fire |-> log[r].fire, snooze |-> log[r].snooze]]

\* C22: a change of the notification permission, and the run of the effect it
\* forces, leave the active reminders, the triggered flags, the snooze counts, the
\* pending snooze timers and the toasts as they are, as in the run that gets the
\* same tasks, clock, scans, snoozes and dismissals without the change.
C22_PermissionIndependence ==
  [][(permission' # permission \/ effectPending) =>
       /\ activeReminders' = activeReminders
       /\ tasks' = tasks
       /\ PendingSnoozes(timers') = PendingSnoozes(timers)
       /\ Toasts(emitted') = Toasts(emitted)]_vars

\* the reminder of a pending task is inside its window of 60 s and was not fired
Waiting(task, reminder) ==
  /\ task.status # "completed"
  /\ ~reminder.triggered
  /\ emitted[reminder.id].fire = 0
  /\ reminder.time <= clock /\ clock < reminder.time + ScanWindow

\* C23: while the scheduler runs, no reminder of a pending task is left unfired
\* inside its window of 60 s unless a scan is about to run, so the next 30 s do not
\* pass before a scan has fired it; and a reminder is marked triggered only by the
\* scan that fires it. Hence a reminder that is in the cache on a pending task from
\* its time on for 60 s has been fired when the 60 s are over.
C23_NoReminderSkipped ==
  (mounted /\ checkIntervalRef) =>
    \A i \in 1..Len(tasks) : \A k \in 1..Len(tasks[i].reminders) :
      /\ Waiting(tasks[i], tasks[i].reminders[k]) => effectPending
      /\ tasks[i].reminders[k].triggered => emitted[tasks[i].reminders[k].id].fire >= 1

\* the window of a reminder of a pending task is over, and a scan has fired it once
C23_Witness ==
  /\ mounted /\ checkIntervalRef /\ ~effectPending
  /\ \E i \in 1..Len(tasks) : \E k \in 1..Len(tasks[i].reminders) :
       /\ tasks[i].status = "pending"
       /\ clock >= tasks[i].reminders[k].time + ScanWindow
       /\ emitted[tasks[i].reminders[k].id].fire = 1

\* C24: in the list getFilteredTasks returns with sortBy = dueDate and sortOrder =
\* desc, every task without due date comes after every task with one.
C24_DueDateSortDescNullsLast ==
  (returned.op = "getFilteredTasks" /\ filters.sortBy = "dueDate" /\ filters.sortOrder = "desc") =>
    \A i, j \in 1..Len(returned.value) :
      (i < j /\ returned.value[i].dueDate = Null) => returned.value[j].dueDate = Null

\* C25: in the list getFilteredTasks returns with sortBy = createdAt, the tasks are
\* in non-decreasing order of createdAt when sortOrder = asc and in non-increasing
\* order when sortOrder = desc.
C25_CreatedAtSortDirection ==
  (returned.op = "getFilteredTasks" /\ filters.sortBy = "createdAt") =>
    \A i, j \in 1..Len(returned.value) :
      i < j =>
        IF filters.sortOrder = "asc"
          THEN returned.value[i].createdAt <= returned.value[j].createdAt
          ELSE returned.value[i].createdAt >= returned.value[j].createdAt

\* the step is a call snoozeReminder(r) for a reminder that is active
Snoozes(r) == snoozeCalls'[r] = snoozeCalls[r] + 1

\* C26: snoozeReminder(r) leaves the task cache as it is (so r's triggered flag,
\* and the reminders of every task), leaves every other entry of activeReminders
\* and the snooze timers of every other reminder as they are, and shows no
\* reminder notification; a timer is only ever set for a reminder that is in
\* activeReminders, so the call for another id sets none.
C26_SnoozeFrame ==
  [][/\ \A r \in RemIds : Snoozes(r) =>
          /\ tasks' = tasks
          /\ Len(activeReminders') = Len(activeReminders)
          /\ \A k \in 1..Len(activeReminders) :
               activeReminders'[k] =
                 IF activeReminders[k].id = r
                   THEN [activeReminders[k] EXCEPT !.snoozeCount = @ + 1]
                   ELSE activeReminders[k]
          /\ {t \in timers' : t.id # r} = {t \in timers : t.id # r}
          /\ emitted' = emitted
     /\ \A t \in timers' \ timers : IsActive(activeReminders, t.id)]_vars

\* two reminders are active and snoozed, each with its timer pending: the snooze
\* of the second left the entry and the timer of the first as they were
C26_Witness ==
  /\ Len(activeReminders) = 2
  /\ \A k \in 1..2 : activeReminders[k].snoozeCount = 1
  /\ \A r \in RemIds : \E t \in timers : TimersOf(r) = {t} /\ t.count = 1

\* C27: when the task form creates a task with a due date and reminders, the
\* cached task has these reminders, with triggered = false, after the optimistic
\* insert and after the reconciliation with the created record, so that the scans
\* can fire them.
C27_CreatedRemindersCached ==
  [][/\ \A q \in Issued :
          (q.kind = "insert" /\ q.body.reminders # <<>>) =>
            /\ FindTask(tasks', q.id) # <<>>
            /\ FindTask(tasks', q.id)[1].reminders = q.body.reminders
     /\ \A q \in requests :
          (InsertSucceeds(q) /\ q.body.reminders # <<>> /\ CountId(tasks, q.id) > 0) =>
            FindTask(tasks', remote'[1].id)[1].reminders = q.body.reminders]_vars

\* C28: at every state, every pending snooze timer is keyed by the id of a
\* reminder that is in activeReminders.
C28_TimersOfActiveReminders ==
  \A t \in timers : IsActive(activeReminders, t.id)

\* C29: once the user is null and the cache has been emptied, the cache stays
\* empty as long as no user is signed in, whatever responses of earlier requests
\* arrive.
C29_CacheEmptyAfterSignOut ==
  [][(~user /\ ~user' /\ tasks = <<>>) => tasks' = <<>>]_vars

\* the cache that a successful fetchTasks writes
LoadedTasks ==
  LET tasksData == SelectRows(remote)
  IN [i \in 1..Len(tasksData) |-> dbToTask(tasksData[i])]

\* C30: a step that answers the select of fetchTasks ends with isLoading false and
\* isInitialized true, and leaves the cache either as it was (the request failed)
\* or holding exactly the loaded rows (it succeeded): a failed reload replaces
\* nothing.
C30_FailedReloadKeepsCache ==
  [][\A q \in Answered :
       q.kind = "select" =>
         /\ isLoading' = FALSE
         /\ isInitialized' = TRUE
         /\ (tasks' = tasks \/ tasks' = LoadedTasks)]_vars

\* the select issued at sign-in has failed after a task was added: the cache
\* still holds the optimistic entry alone, where a success would have loaded the
\* remote row
C30_Witness ==
  /\ user /\ nextReq = 2
  /\ \A q \in requests : q.kind = "insert"
  /\ requests # {}
  /\ Len(tasks) = 1 /\ tasks[1].id # FirstServerId
  /\ LoadedTasks # <<>>
  /\ ~isLoading /\ isInitialized


====
